---- MODULE Spec2Model ----
(***************************************************************************)
(* Puppet Mode (8bitbyadog/puppet-mode): the layer-name tables of          *)
(* constants.py, the selector state of core/properties.py, the puppet      *)
(* construction of core/rig_builder.py and the operators of                *)
(* operators/create_puppet.py, operators/draw_part.py and                  *)
(* panels/main_panel.py, as a state machine over the host scene            *)
(* (bpy.data.objects, the active object, the interaction mode).            *)
(*                                                                         *)
(* Names are strings.  Opacities are percentages (1.0 is 100, 0.3 is 30).  *)
(* Python's None and the empty string are both "" (both are falsy and no   *)
(* object, layer or part is named "").                                     *)
(***************************************************************************)
EXTENDS Integers, Sequences, FiniteSets, TLC

VARIABLES
    version,    \* bpy.app.version, as the class of versions the code tells apart
    objects,    \* bpy.data.objects, in creation order
    active,     \* context.view_layer.objects.active (an object name, or "")
    mode,       \* the interaction mode of the active object
    props,      \* context.scene.puppet_selector (PUPPET_PG_selector)
    last,       \* what create_puppet, if run in the last step, returned and reported
    exec,       \* the view_part / draw_part execution of the last step, if any
    call        \* the helper-function call made in the last step, if any

vars == <<version, objects, active, mode, props, last, exec, call>>

----------------------------------------------------------------------------
(* Bounds of the model *)

\* create_puppet is invoked at most this many times while parts are viewed and drawn (Spec)
MaxCreates == 1
\* create_puppet is invoked at most this many times when only puppets are created and selected (SpecCreate)
MaxPuppets == 3
\* the base names tried are the first MaxBaseNames of BASE_NAME_INPUTS
MaxBaseNames == 2
\* the parts selected are the first MaxPartInputs of PART_INPUTS
MaxPartInputs == 3
\* the views selected are the first MaxViewInputs of CHARACTER_VIEWS
MaxViewInputs == 2
\* the hand poses selected are the first MaxPoseInputs of HAND_POSES
MaxPoseInputs == 1
\* the explicit layer_name arguments tried are the first MaxLayerArgs of LAYER_ARG_INPUTS
MaxLayerArgs == 2
\* the valid rotation identifiers tried are the first MaxRotationInputs of the enum's items
MaxRotationInputs == 1

----------------------------------------------------------------------------
(* Python helpers *)

SeqToSet(s) == {s[i] : i \in DOMAIN s}

\* str.startswith
StartsWith(s, p) == Len(s) >= Len(p) /\ SubSeq(s, 1, Len(p)) = p

\* str.endswith
EndsWith(s, p) == Len(s) >= Len(p) /\ SubSeq(s, Len(s) - Len(p) + 1, Len(s)) = p

\* list(reversed(s))
Reversed(s) == [i \in 1..Len(s) |-> s[Len(s) + 1 - i]]

\* list.index, 1-based; 0 when absent
IndexOf(s, x) == IF x \in SeqToSet(s) THEN CHOOSE i \in DOMAIN s : s[i] = x /\ \A j \in 1..(i - 1) : s[j] # x ELSE 0

\* the concatenation of the lists listOf[keys[1]], listOf[keys[2]], ... (list.extend in a loop)
RECURSIVE ExtendAll(_, _)
ExtendAll(keys, listOf) == IF keys = <<>> THEN <<>> ELSE listOf[Head(keys)] \o ExtendAll(Tail(keys), listOf)

\* f"{counter:03d}"
Format03d(counter) == IF counter < 10 THEN "00" \o ToString(counter) ELSE IF counter < 100 THEN "0" \o ToString(counter) ELSE ToString(counter)

----------------------------------------------------------------------------
(* constants.py *)

CHARACTER_VIEWS == <<"Front", "Quarter_L", "Quarter_R", "Profile_L", "Profile_R">>

HAND_POSES == <<"Open", "Fist", "Point">>

ROTATION_VIEWS_FULL == CHARACTER_VIEWS \o <<"Back">>

ROTATION_VIEWS_SIMPLE == <<"Front", "Side">>

HAND_ROTATION_VIEWS == <<"Palm", "Back">>

\* BONE_HIERARCHY: each dict as the sequence of its entries in insertion order, an
\* entry as its key with its "head", "tail" (in thousandths of a unit) and "children"
BONE_HIERARCHY ==
    <<
    [name |-> "Root", head |-> <<0, 0, 0>>, tail |-> <<0, 0, 100>>, children |-> <<
        [name |-> "Spine", head |-> <<0, 0, 900>>, tail |-> <<0, 0, 1100>>, children |-> <<
            [name |-> "Chest", head |-> <<0, 0, 1100>>, tail |-> <<0, 0, 1400>>, children |-> <<
                [name |-> "Neck", head |-> <<0, 0, 1400>>, tail |-> <<0, 0, 1550>>, children |-> <<
                    [name |-> "Head", head |-> <<0, 0, 1550>>, tail |-> <<0, 0, 1850>>, children |-> <<
                        [name |-> "Eye_L", head |-> <<60, -80, 1750>>, tail |-> <<60, -120, 1750>>, children |-> <<>>],
                        [name |-> "Eye_R", head |-> <<-60, -80, 1750>>, tail |-> <<-60, -120, 1750>>, children |-> <<>>],
                        [name |-> "Eyebrow_L", head |-> <<60, -80, 1800>>, tail |-> <<60, -100, 1800>>, children |-> <<>>],
                        [name |-> "Eyebrow_R", head |-> <<-60, -80, 1800>>, tail |-> <<-60, -100, 1800>>, children |-> <<>>],
                        [name |-> "Jaw", head |-> <<0, -50, 1650>>, tail |-> <<0, -100, 1600>>, children |-> <<>>]
                    >>]
                >>],
                [name |-> "Shoulder_L", head |-> <<50, 0, 1350>>, tail |-> <<150, 0, 1350>>, children |-> <<
                    [name |-> "Arm_Upper_L", head |-> <<150, 0, 1350>>, tail |-> <<400, 0, 1350>>, children |-> <<
                        [name |-> "Arm_Lower_L", head |-> <<400, 0, 1350>>, tail |-> <<620, -40, 1320>>, children |-> <<
                            [name |-> "Hand_L", head |-> <<620, -40, 1320>>, tail |-> <<720, -40, 1320>>, children |-> <<
                                [name |-> "Thumb_L_1", head |-> <<660, -60, 1320>>, tail |-> <<660, -100, 1320>>, children |-> <<
                                    [name |-> "Thumb_L_2", head |-> <<660, -100, 1320>>, tail |-> <<660, -130, 1320>>, children |-> <<
                                        [name |-> "Thumb_L_3", head |-> <<660, -130, 1320>>, tail |-> <<660, -150, 1320>>, children |-> <<>>]
                                    >>]
                                >>],
                                [name |-> "Index_L_1", head |-> <<720, -60, 1320>>, tail |-> <<760, -60, 1320>>, children |-> <<
                                    [name |-> "Index_L_2", head |-> <<760, -60, 1320>>, tail |-> <<790, -60, 1320>>, children |-> <<
                                        [name |-> "Index_L_3", head |-> <<790, -60, 1320>>, tail |-> <<810, -60, 1320>>, children |-> <<>>]
                                    >>]
                                >>],
                                [name |-> "Middle_L_1", head |-> <<720, -40, 1320>>, tail |-> <<770, -40, 1320>>, children |-> <<
                                    [name |-> "Middle_L_2", head |-> <<770, -40, 1320>>, tail |-> <<810, -40, 1320>>, children |-> <<
                                        [name |-> "Middle_L_3", head |-> <<810, -40, 1320>>, tail |-> <<840, -40, 1320>>, children |-> <<>>]
                                    >>]
                                >>],
                                [name |-> "Ring_L_1", head |-> <<720, -20, 1320>>, tail |-> <<760, -20, 1320>>, children |-> <<
                                    [name |-> "Ring_L_2", head |-> <<760, -20, 1320>>, tail |-> <<790, -20, 1320>>, children |-> <<
                                        [name |-> "Ring_L_3", head |-> <<790, -20, 1320>>, tail |-> <<810, -20, 1320>>, children |-> <<>>]
                                    >>]
                                >>],
                                [name |-> "Pinky_L_1", head |-> <<720, 0, 1320>>, tail |-> <<750, 0, 1320>>, children |-> <<
                                    [name |-> "Pinky_L_2", head |-> <<750, 0, 1320>>, tail |-> <<770, 0, 1320>>, children |-> <<
                                        [name |-> "Pinky_L_3", head |-> <<770, 0, 1320>>, tail |-> <<790, 0, 1320>>, children |-> <<>>]
                                    >>]
                                >>]
                            >>]
                        >>]
                    >>]
                >>],
                [name |-> "Shoulder_R", head |-> <<-50, 0, 1350>>, tail |-> <<-150, 0, 1350>>, children |-> <<
                    [name |-> "Arm_Upper_R", head |-> <<-150, 0, 1350>>, tail |-> <<-400, 0, 1350>>, children |-> <<
                        [name |-> "Arm_Lower_R", head |-> <<-400, 0, 1350>>, tail |-> <<-620, -40, 1320>>, children |-> <<
                            [name |-> "Hand_R", head |-> <<-620, -40, 1320>>, tail |-> <<-720, -40, 1320>>, children |-> <<
                                [name |-> "Thumb_R_1", head |-> <<-660, -60, 1320>>, tail |-> <<-660, -100, 1320>>, children |-> <<
                                    [name |-> "Thumb_R_2", head |-> <<-660, -100, 1320>>, tail |-> <<-660, -130, 1320>>, children |-> <<
                                        [name |-> "Thumb_R_3", head |-> <<-660, -130, 1320>>, tail |-> <<-660, -150, 1320>>, children |-> <<>>]
                                    >>]
                                >>],
                                [name |-> "Index_R_1", head |-> <<-720, -60, 1320>>, tail |-> <<-760, -60, 1320>>, children |-> <<
                                    [name |-> "Index_R_2", head |-> <<-760, -60, 1320>>, tail |-> <<-790, -60, 1320>>, children |-> <<
                                        [name |-> "Index_R_3", head |-> <<-790, -60, 1320>>, tail |-> <<-810, -60, 1320>>, children |-> <<>>]
                                    >>]
                                >>],
                                [name |-> "Middle_R_1", head |-> <<-720, -40, 1320>>, tail |-> <<-770, -40, 1320>>, children |-> <<
                                    [name |-> "Middle_R_2", head |-> <<-770, -40, 1320>>, tail |-> <<-810, -40, 1320>>, children |-> <<
                                        [name |-> "Middle_R_3", head |-> <<-810, -40, 1320>>, tail |-> <<-840, -40, 1320>>, children |-> <<>>]
                                    >>]
                                >>],
                                [name |-> "Ring_R_1", head |-> <<-720, -20, 1320>>, tail |-> <<-760, -20, 1320>>, children |-> <<
                                    [name |-> "Ring_R_2", head |-> <<-760, -20, 1320>>, tail |-> <<-790, -20, 1320>>, children |-> <<
                                        [name |-> "Ring_R_3", head |-> <<-790, -20, 1320>>, tail |-> <<-810, -20, 1320>>, children |-> <<>>]
                                    >>]
                                >>],
                                [name |-> "Pinky_R_1", head |-> <<-720, 0, 1320>>, tail |-> <<-750, 0, 1320>>, children |-> <<
                                    [name |-> "Pinky_R_2", head |-> <<-750, 0, 1320>>, tail |-> <<-770, 0, 1320>>, children |-> <<
                                        [name |-> "Pinky_R_3", head |-> <<-770, 0, 1320>>, tail |-> <<-790, 0, 1320>>, children |-> <<>>]
                                    >>]
                                >>]
                            >>]
                        >>]
                    >>]
                >>]
            >>],
            [name |-> "Hips", head |-> <<0, 0, 900>>, tail |-> <<0, 0, 850>>, children |-> <<
                [name |-> "Leg_Upper_L", head |-> <<100, 0, 850>>, tail |-> <<100, -20, 450>>, children |-> <<
                    [name |-> "Leg_Lower_L", head |-> <<100, -20, 450>>, tail |-> <<100, 30, 80>>, children |-> <<
                        [name |-> "Foot_L", head |-> <<100, 30, 80>>, tail |-> <<100, -100, 20>>, children |-> <<>>]
                    >>]
                >>],
                [name |-> "Leg_Upper_R", head |-> <<-100, 0, 850>>, tail |-> <<-100, -20, 450>>, children |-> <<
                    [name |-> "Leg_Lower_R", head |-> <<-100, -20, 450>>, tail |-> <<-100, 30, 80>>, children |-> <<
                        [name |-> "Foot_R", head |-> <<-100, 30, 80>>, tail |-> <<-100, -100, 20>>, children |-> <<>>]
                    >>]
                >>]
            >>]
        >>]
    >>]
    >>

DRAWABLE_PARTS == <<"Face_Features", "Mouth", "Head", "Body", "Arm_L", "Arm_R", "Hand_L", "Hand_R", "Leg_L", "Leg_R", "Foot_L", "Foot_R">>

VIEW_DEPENDENT_PARTS == <<"Head", "Body", "Arm_L", "Arm_R", "Leg_L", "Leg_R">>

VIEW_INDEPENDENT_PARTS == <<"Face_Features", "Mouth", "Hand_L", "Hand_R", "Foot_L", "Foot_R">>

\* index 1 is frontmost
LAYER_ORDER == <<"Face_Features", "Mouth", "Head", "Hand_L", "Hand_R", "Arm_L", "Arm_R", "Body", "Foot_L", "Foot_R", "Leg_L", "Leg_R">>

\* the keys of GP_LAYER_STRUCTURE in the dict's insertion order
GP_LAYER_KEYS == VIEW_DEPENDENT_PARTS \o VIEW_INDEPENDENT_PARTS

\* the layer names _generate_layer_structure gives one part
LayersOfPart(part) ==
    IF part \in SeqToSet(VIEW_DEPENDENT_PARTS)
    THEN [i \in 1..Len(CHARACTER_VIEWS) |-> part \o "_" \o CHARACTER_VIEWS[i]]
    ELSE IF StartsWith(part, "Hand_")
         THEN [i \in 1..Len(HAND_POSES) |-> part \o "_" \o HAND_POSES[i]]
         ELSE <<part>>

_generate_layer_structure == [part \in SeqToSet(GP_LAYER_KEYS) |-> LayersOfPart(part)]

GP_LAYER_STRUCTURE == _generate_layer_structure

UI_BODY_REGIONS == [FACE |-> <<"Head", "Face_Features", "Mouth">>, BODY |-> <<"Body", "Arm_L", "Arm_R", "Leg_L", "Leg_R", "Foot_L", "Foot_R">>, HANDS |-> <<"Hand_L", "Hand_R">>]

OUTLINER_PARTS == <<"Face_Features", "Mouth", "Head", "Body", "Arm_L", "Arm_R", "Hand_L", "Hand_R", "Leg_L", "Leg_R", "Foot_L", "Foot_R">>

get_all_layer_names == ExtendAll(GP_LAYER_KEYS, GP_LAYER_STRUCTURE)

get_total_drawable_parts == Len(get_all_layer_names)

get_layer_draw_order_front_first ==
    LET present == SelectSeq(LAYER_ORDER, LAMBDA part : part \in DOMAIN GP_LAYER_STRUCTURE)
    IN  ExtendAll(present, GP_LAYER_STRUCTURE)

get_layer_draw_order ==
    LET present == SelectSeq(Reversed(LAYER_ORDER), LAMBDA part : part \in DOMAIN GP_LAYER_STRUCTURE)
    IN  ExtendAll(present, GP_LAYER_STRUCTURE)

\* get_layers_for_view(view) in its place: every layer of a view-independent part
get_active_layers_for_view_every_pose(view, hand_pose) ==
    ExtendAll(DRAWABLE_PARTS, [part \in SeqToSet(DRAWABLE_PARTS) |->
        IF part \in SeqToSet(VIEW_DEPENDENT_PARTS) THEN <<part \o "_" \o view>>
        ELSE IF part \in SeqToSet(VIEW_INDEPENDENT_PARTS) THEN GP_LAYER_STRUCTURE[part]
        ELSE <<>>])

get_active_layers_for_view(view, hand_pose) ==
    [i \in 1..Len(DRAWABLE_PARTS) |->
        LET part == DRAWABLE_PARTS[i]
        IN  IF part \in SeqToSet(VIEW_DEPENDENT_PARTS) THEN part \o "_" \o view
            ELSE IF StartsWith(part, "Hand_") THEN part \o "_" \o hand_pose
            ELSE part]

\* the dict a sequence of assignments mapping[key] = value builds, as the sequence of
\* its items: a key stands where it was first assigned and holds its last value
DictOf(assignments) ==
    LET first == SelectSeq([i \in DOMAIN assignments |-> i],
                           LAMBDA i : \A j \in 1..(i - 1) : assignments[j][1] # assignments[i][1])
        LastOf(key) == CHOOSE j \in DOMAIN assignments :
                           assignments[j][1] = key /\ \A k \in (j + 1)..Len(assignments) : assignments[k][1] # key
    IN  [n \in DOMAIN first |->
            [key |-> assignments[first[n]][1], value |-> assignments[LastOf(assignments[first[n]][1])][2]]]

\* the assignments mapping[...] = ... of _generate_layer_to_bone in the order it makes them
LayerToBoneAssignments ==
    [i \in 1..Len(CHARACTER_VIEWS) |-> <<"Head_" \o CHARACTER_VIEWS[i], "Head">>]
    \o << <<"Face_Features", "Head">>, <<"Mouth", "Jaw">> >>
    \o [i \in 1..Len(CHARACTER_VIEWS) |-> <<"Body_" \o CHARACTER_VIEWS[i], "Chest">>]
    \o [k \in 1..(2 * Len(CHARACTER_VIEWS)) |->
            IF k % 2 = 1 THEN <<"Arm_L_" \o CHARACTER_VIEWS[(k + 1) \div 2], "Shoulder_L">>
            ELSE <<"Arm_R_" \o CHARACTER_VIEWS[k \div 2], "Shoulder_R">>]
    \o [k \in 1..(2 * Len(HAND_POSES)) |->
            IF k % 2 = 1 THEN <<"Hand_L_" \o HAND_POSES[(k + 1) \div 2], "Hand_L">>
            ELSE <<"Hand_R_" \o HAND_POSES[k \div 2], "Hand_R">>]
    \o [k \in 1..(2 * Len(CHARACTER_VIEWS)) |->
            IF k % 2 = 1 THEN <<"Leg_L_" \o CHARACTER_VIEWS[(k + 1) \div 2], "Hips">>
            ELSE <<"Leg_R_" \o CHARACTER_VIEWS[k \div 2], "Hips">>]
    \o << <<"Foot_L", "Foot_L">>, <<"Foot_R", "Foot_R">> >>

\* the mouth layer mapped to a bone of its own name
_generate_layer_to_bone_mouth_bone ==
    DictOf([i \in DOMAIN LayerToBoneAssignments |->
        IF LayerToBoneAssignments[i][1] = "Mouth" THEN <<"Mouth", "Mouth">> ELSE LayerToBoneAssignments[i]])

_generate_layer_to_bone == DictOf(LayerToBoneAssignments)

LAYER_TO_BONE == _generate_layer_to_bone

\* traverse(node) of get_bone_names_flat: the names it appends to bones
RECURSIVE traverse(_)
traverse(node) ==
    IF Len(node) = 0 THEN <<>>
    ELSE <<Head(node).name>> \o traverse(Head(node).children) \o traverse(Tail(node))

get_bone_names_flat == traverse(BONE_HIERARCHY)

get_gp_object_name(puppet_name, layer_name) == puppet_name \o "_" \o layer_name

_get_base_part_from_layer(layer_name) ==
    IF layer_name \in SeqToSet(DRAWABLE_PARTS) THEN layer_name
    ELSE LET hits == {i \in DOMAIN DRAWABLE_PARTS : StartsWith(layer_name, DRAWABLE_PARTS[i] \o "_")}
         IN  IF hits = {} THEN layer_name
             ELSE DRAWABLE_PARTS[CHOOSE i \in hits : \A j \in hits : i <= j]

----------------------------------------------------------------------------
(* Inputs the operators are run on *)

BASE_NAME_INPUTS == <<"Puppet", "Puppet_001", "Puppet_Rig">>

PART_INPUTS == <<"Head", "Body", "Hand_L", "Arm_L", "Mouth", "Foot_L", "Leg_R", "Face_Features", "Arm_R", "Hand_R", "Leg_L", "Foot_R">>

\* "" is the operator property's default (use the selector); "Torso" names no layer
LAYER_ARG_INPUTS == <<"", "Torso", "Mouth", "Body_Front">>

Prefix(s, n) == {s[i] : i \in 1..(IF n < Len(s) THEN n ELSE Len(s))}

BaseNames == Prefix(BASE_NAME_INPUTS, MaxBaseNames)

PartInputs == Prefix(PART_INPUTS, MaxPartInputs)

ViewInputs == Prefix(CHARACTER_VIEWS, MaxViewInputs)

PoseInputs == Prefix(HAND_POSES, MaxPoseInputs)

LayerArgs == Prefix(LAYER_ARG_INPUTS, MaxLayerArgs)

\* bpy.app.version: before 4.3, from 4.3 and before 5.0, from 5.0
Versions == {"4.0", "4.3", "5.0"}

----------------------------------------------------------------------------
(* core/properties.py *)

FULL_OPACITY == 100

DEFAULT_ONION_OPACITY == 30

\* the identifiers of get_rotation_items for the selected part
get_rotation_items(part) ==
    IF part \in SeqToSet(VIEW_DEPENDENT_PARTS) THEN <<"USE_VIEW">>
    ELSE IF part \in SeqToSet(VIEW_INDEPENDENT_PARTS)
         THEN IF StartsWith(part, "Hand_") THEN HAND_POSES ELSE <<"Default">>
         ELSE <<"Default">>

\* props.rotation: a dynamic enum keeps the index and reads it in the current items
Rotation(p) ==
    LET items == get_rotation_items(p.part)
    IN  IF p.rotation_index <= Len(items) THEN items[p.rotation_index] ELSE ""

\* PUPPET_PG_selector as registered: every enum at its first item, onion skin on
InitProps == [character_view |-> "Front", region |-> "FACE", part |-> "Head", rotation_index |-> 1, hand_pose |-> "Open", onion_skin_enabled |-> TRUE, onion_skin_opacity |-> DEFAULT_ONION_OPACITY]

get_current_layer_name_hand_by_view(p) ==
    IF p.part \in {"Face_Features", "Mouth"} THEN p.part
    ELSE IF p.part \in {"Foot_L", "Foot_R"} THEN p.part
    ELSE IF StartsWith(p.part, "Hand_") THEN p.part \o "_" \o p.character_view
    ELSE IF p.part \in SeqToSet(VIEW_DEPENDENT_PARTS) THEN p.part \o "_" \o p.character_view
    ELSE p.part

get_current_layer_name(p) ==
    IF p.part \in {"Face_Features", "Mouth"} THEN p.part
    ELSE IF p.part \in {"Foot_L", "Foot_R"} THEN p.part
    ELSE IF StartsWith(p.part, "Hand_") THEN p.part \o "_" \o p.hand_pose
    ELSE IF p.part \in SeqToSet(VIEW_DEPENDENT_PARTS) THEN p.part \o "_" \o p.character_view
    ELSE p.part

get_view_layer_names(p) == SeqToSet(get_active_layers_for_view(p.character_view, p.hand_pose))

ObjectNames(objs) == {objs[i].name : i \in DOMAIN objs}

\* bpy.data.objects[name]
ObjectNamed(objs, name) == objs[CHOOSE i \in DOMAIN objs : objs[i].name = name]

is_layer_drawn(objs, armature_name, layer_name) ==
    IF armature_name = "" THEN FALSE
    ELSE LET puppet_name == ObjectNamed(objs, armature_name).puppet_name
         IN  IF puppet_name = "" THEN FALSE
             ELSE get_gp_object_name(puppet_name, layer_name) \in ObjectNames(objs)

\* (drawn, total)
count_drawn_parts(objs, armature_name) ==
    IF armature_name = "" THEN <<0, 0>>
    ELSE LET all_layers == get_all_layer_names
         IN  <<Cardinality({i \in DOMAIN all_layers : is_layer_drawn(objs, armature_name, all_layers[i])}), Len(all_layers)>>

----------------------------------------------------------------------------
(* core/rig_builder.py *)

get_unique_name_without_loop(base_name, existing_names) == IF base_name \in existing_names THEN base_name \o "_" \o Format03d(1) ELSE base_name

RECURSIVE FirstFreeCounter(_, _, _)
FirstFreeCounter(base_name, existing_names, counter) ==
    IF (base_name \o "_" \o Format03d(counter)) \in existing_names
    THEN FirstFreeCounter(base_name, existing_names, counter + 1)
    ELSE counter

get_unique_name(base_name, existing_names) ==
    IF base_name \in existing_names
    THEN base_name \o "_" \o Format03d(FirstFreeCounter(base_name, existing_names, 1))
    ELSE base_name

is_gp_v3 == version \in {"4.3", "5.0"}

\* the name bpy.data.objects.new gives: the host appends .001, .002, ... to a taken name
RECURSIVE HostFreeSuffix(_, _, _)
HostFreeSuffix(name, existing_names, counter) ==
    IF (name \o "." \o Format03d(counter)) \in existing_names
    THEN HostFreeSuffix(name, existing_names, counter + 1)
    ELSE counter

HostObjectName(name, existing_names) ==
    IF name \in existing_names
    THEN name \o "." \o Format03d(HostFreeSuffix(name, existing_names, 1))
    ELSE name

\* bpy.data.objects.new(name, data): no selection, no parent, no custom property, no
\* layer, no bone
NewObject(name, type) == [name |-> name, type |-> type, select |-> FALSE, parent |-> "", is_puppet |-> FALSE, puppet_name |-> "", puppet_gp |-> "", puppet_rig |-> "", proportions_locked |-> FALSE, layers |-> <<>>, active_layer |-> "", bones |-> <<>>]

deselect_all_objects(objs) == [i \in DOMAIN objs |-> [objs[i] EXCEPT !.select = FALSE]]

\* the loop over reversed(all_layers) of _create_gp_legacy and of _create_gp_v3: the
\* layers, first created first
CreatedLayers ==
    LET names == Reversed(get_all_layer_names)
    IN  [i \in DOMAIN names |-> [name |-> names[i], hide |-> ~EndsWith(names[i], "_Front"), opacity |-> FULL_OPACITY, lock |-> FALSE]]

\* a GP object of the legacy API has type GPENCIL; layers[0] is made the active layer
_create_gp_legacy(name, existing_names) ==
    [NewObject(HostObjectName(name, existing_names), "GPENCIL") EXCEPT
        !.layers = CreatedLayers,
        !.active_layer = CreatedLayers[1].name]

\* a GP object of the v3 API has type GREASEPENCIL; the active layer is left to the
\* host, which makes each layer it adds the active one
_create_gp_v3(name, existing_names) ==
    [NewObject(HostObjectName(name, existing_names), "GREASEPENCIL") EXCEPT
        !.layers = CreatedLayers,
        !.active_layer = CreatedLayers[Len(CreatedLayers)].name]

create_grease_pencil(name, existing_names) ==
    IF is_gp_v3 THEN _create_gp_v3(name, existing_names) ELSE _create_gp_legacy(name, existing_names)

\* parent_bone=None
NoBone == [name |-> "", parent |-> "", head |-> <<0, 0, 0>>, tail |-> <<0, 0, 0>>, use_connect |-> FALSE]

\* children parented to the bone their parent hangs on
RECURSIVE _build_bones_recursive_flat(_, _, _)
_build_bones_recursive_flat(edit_bones, hierarchy, parent_bone) ==
    IF Len(hierarchy) = 0 THEN <<>>
    ELSE LET bone_data == Head(hierarchy)
             bone == [name |-> HostObjectName(bone_data.name, {edit_bones[i].name : i \in DOMAIN edit_bones}),
                      parent |-> parent_bone.name,
                      head |-> bone_data.head,
                      tail |-> bone_data.tail,
                      use_connect |-> parent_bone # NoBone /\ parent_bone.tail = bone_data.head]
             below == <<bone>> \o _build_bones_recursive_flat(Append(edit_bones, bone), bone_data.children, parent_bone)
         IN  below \o _build_bones_recursive_flat(edit_bones \o below, Tail(hierarchy), parent_bone)

\* the bones one call of _build_bones_recursive adds to edit_bones, first created
\* first; edit_bones.new(name) gives the bone a name no other edit bone has
RECURSIVE _build_bones_recursive(_, _, _)
_build_bones_recursive(edit_bones, hierarchy, parent_bone) ==
    IF Len(hierarchy) = 0 THEN <<>>
    ELSE LET bone_data == Head(hierarchy)
             bone == [name |-> HostObjectName(bone_data.name, {edit_bones[i].name : i \in DOMAIN edit_bones}),
                      parent |-> parent_bone.name,
                      head |-> bone_data.head,
                      tail |-> bone_data.tail,
                      use_connect |-> parent_bone # NoBone /\ parent_bone.tail = bone_data.head]
             below == <<bone>> \o _build_bones_recursive(Append(edit_bones, bone), bone_data.children, bone)
         IN  below \o _build_bones_recursive(edit_bones \o below, Tail(hierarchy), parent_bone)

\* the skeleton create_armature builds in edit mode
BuiltBones == _build_bones_recursive(<<>>, BONE_HIERARCHY, NoBone)

\* create_armature up to bpy.ops.object.mode_set(mode='EDIT'): the armature object
\* linked, active and selected, without a bone
LinkedArmature(name, existing_names) ==
    [NewObject(HostObjectName(name \o "_Rig", existing_names), "ARMATURE") EXCEPT !.select = TRUE]

\* the armature object create_armature returns
create_armature(name, existing_names) ==
    [LinkedArmature(name, existing_names) EXCEPT !.bones = BuiltBones]

\* create_puppet up to its return: the objects, and the tuple (gp_obj, armature_obj) it returns
create_puppet(objs, base_name) ==
    LET existing_names == ObjectNames(objs)
        puppet_name == get_unique_name(base_name, existing_names)
        arm0 == create_armature(puppet_name, existing_names)
        gp0 == create_grease_pencil(puppet_name, existing_names \cup {arm0.name})
        gp_obj == [gp0 EXCEPT !.parent = arm0.name, !.puppet_rig = arm0.name, !.select = TRUE]
        armature_obj == [arm0 EXCEPT !.is_puppet = TRUE, !.puppet_name = puppet_name, !.puppet_gp = gp0.name, !.select = FALSE]
    IN  [objects |-> deselect_all_objects(objs) \o <<armature_obj, gp_obj>>,
         active |-> gp_obj.name,
         puppet_name |-> puppet_name,
         returned |-> [pytype |-> "tuple", items |-> <<gp_obj.name, armature_obj.name>>]]

get_puppets_in_scene(objs) == SelectSeq(objs, LAMBDA o : o.type = "ARMATURE" /\ o.is_puppet)

----------------------------------------------------------------------------
(* operators/draw_part.py *)

get_gp_object_type == IF version = "5.0" THEN "GREASEPENCIL" ELSE "GPENCIL"

IsPuppetGp(o) == o.type \in {get_gp_object_type, "GPENCIL"} /\ o.puppet_rig # ""

\* The objects get_gp_object_from_context may return ("" is None).  The final search
\* returns the first puppet GP object in the host's iteration order of
\* bpy.data.objects, which the code does not fix: any of them.
get_gp_object_from_context(objs, act) ==
    LET found == {objs[i].name : i \in {j \in DOMAIN objs : IsPuppetGp(objs[j])}}
        search == IF found = {} THEN {""} ELSE found
    IN  IF act = "" THEN search
        ELSE LET obj == ObjectNamed(objs, act)
             IN  IF IsPuppetGp(obj) THEN {act}
                 ELSE IF obj.type = "ARMATURE" /\ obj.is_puppet /\ obj.puppet_gp # "" /\ obj.puppet_gp \in ObjectNames(objs)
                      THEN {obj.puppet_gp}
                      ELSE search

get_related_rotation_layers(part, current_rotation, hand_pose) ==
    LET rotations ==
            IF part \in {"Head", "Chest", "Spine", "Hips"} THEN ROTATION_VIEWS_FULL
            ELSE IF StartsWith(part, "Hand_") THEN HAND_ROTATION_VIEWS
            ELSE IF StartsWith(part, "Arm_") \/ StartsWith(part, "Leg_") \/ StartsWith(part, "Foot_") THEN ROTATION_VIEWS_SIMPLE
            ELSE <<>>
        others == SelectSeq(rotations, LAMBDA rot : rot # current_rotation)
    IN  [i \in DOMAIN others |->
            IF hand_pose # "" /\ StartsWith(part, "Hand_")
            THEN part \o "_" \o hand_pose \o "_" \o others[i]
            ELSE part \o "_" \o others[i]]

\* related_layers as both execute methods compute it from the selector
RelatedLayers(p) == get_related_rotation_layers(p.part, Rotation(p), IF p.region = "HANDS" THEN p.hand_pose ELSE "")

LayerNames(layers) == {layers[i].name : i \in DOMAIN layers}

\* the visibility loop of PUPPET_OT_view_part.execute
view_part_set_visibility(layers, layer_name, onion_enabled, onion_opacity, related_layers) ==
    [i \in DOMAIN layers |->
        IF layers[i].name = layer_name
        THEN [layers[i] EXCEPT !.hide = FALSE, !.opacity = FULL_OPACITY]
        ELSE IF onion_enabled /\ layers[i].name \in SeqToSet(related_layers)
             THEN [layers[i] EXCEPT !.hide = FALSE, !.opacity = onion_opacity]
             ELSE [layers[i] EXCEPT !.hide = TRUE]]

draw_part_set_visibility_unlocked_onion(layers, layer_name, onion_enabled, onion_opacity, related_layers) ==
    [i \in DOMAIN layers |->
        IF layers[i].name = layer_name
        THEN [layers[i] EXCEPT !.hide = FALSE, !.opacity = FULL_OPACITY, !.lock = FALSE]
        ELSE IF onion_enabled /\ layers[i].name \in SeqToSet(related_layers)
             THEN [layers[i] EXCEPT !.hide = FALSE, !.opacity = onion_opacity]
             ELSE [layers[i] EXCEPT !.hide = TRUE]]

\* the visibility loop of PUPPET_OT_draw_part.execute
draw_part_set_visibility(layers, layer_name, onion_enabled, onion_opacity, related_layers) ==
    [i \in DOMAIN layers |->
        IF layers[i].name = layer_name
        THEN [layers[i] EXCEPT !.hide = FALSE, !.opacity = FULL_OPACITY, !.lock = FALSE]
        ELSE IF onion_enabled /\ layers[i].name \in SeqToSet(related_layers)
             THEN [layers[i] EXCEPT !.hide = FALSE, !.opacity = onion_opacity, !.lock = TRUE]
             ELSE [layers[i] EXCEPT !.hide = TRUE]]

NoExec == [kind |-> "none", arg |-> "", target |-> "", gp |-> "", result |-> "", level |-> "", msg |-> ""]

\* both execute methods from "Select the GP object" on: the objects afterwards
ShowLayer(objs, gp_name, layer_name, layers) ==
    [i \in DOMAIN objs |->
        IF objs[i].name = gp_name
        THEN [objs[i] EXCEPT !.select = TRUE, !.layers = layers, !.active_layer = layer_name]
        ELSE [objs[i] EXCEPT !.select = FALSE]]

\* PUPPET_OT_view_part.execute on the GP object found: the scene and the outcome
view_part_execute(objs, act, md, p, arg, gp_name) ==
    IF gp_name = ""
    THEN [objects |-> objs, active |-> act, mode |-> md,
          exec |-> [kind |-> "view_part", arg |-> arg, target |-> "", gp |-> "", result |-> "CANCELLED", level |-> "ERROR", msg |-> "No puppet GP object found"]]
    ELSE LET layer_name == IF arg # "" THEN arg ELSE get_current_layer_name(p)
             gp_obj == ObjectNamed(objs, gp_name)
         IN  IF layer_name \notin LayerNames(gp_obj.layers)
             THEN [objects |-> objs, active |-> act, mode |-> md,
                   exec |-> [kind |-> "view_part", arg |-> arg, target |-> layer_name, gp |-> gp_name, result |-> "CANCELLED", level |-> "WARNING", msg |-> "Layer '" \o layer_name \o "' not found"]]
             ELSE [objects |-> ShowLayer(objs, gp_name, layer_name, view_part_set_visibility(gp_obj.layers, layer_name, p.onion_skin_enabled, p.onion_skin_opacity, RelatedLayers(p))),
                   active |-> gp_name,
                   mode |-> "OBJECT",
                   exec |-> [kind |-> "view_part", arg |-> arg, target |-> layer_name, gp |-> gp_name, result |-> "FINISHED", level |-> "INFO", msg |-> "Viewing: " \o layer_name]]

\* PUPPET_OT_draw_part.execute on the GP object found: the scene and the outcome
draw_part_execute(objs, act, md, p, arg, gp_name) ==
    IF gp_name = ""
    THEN [objects |-> objs, active |-> act, mode |-> md,
          exec |-> [kind |-> "draw_part", arg |-> arg, target |-> "", gp |-> "", result |-> "CANCELLED", level |-> "ERROR", msg |-> "No puppet GP object found"]]
    ELSE LET layer_name == IF arg # "" THEN arg ELSE get_current_layer_name(p)
             gp_obj == ObjectNamed(objs, gp_name)
         IN  IF layer_name \notin LayerNames(gp_obj.layers)
             THEN [objects |-> objs, active |-> act, mode |-> md,
                   exec |-> [kind |-> "draw_part", arg |-> arg, target |-> layer_name, gp |-> gp_name, result |-> "CANCELLED", level |-> "WARNING", msg |-> "Layer '" \o layer_name \o "' not found"]]
             ELSE [objects |-> ShowLayer(objs, gp_name, layer_name, draw_part_set_visibility(gp_obj.layers, layer_name, p.onion_skin_enabled, p.onion_skin_opacity, RelatedLayers(p))),
                   active |-> gp_name,
                   mode |-> "PAINT",
                   exec |-> [kind |-> "draw_part", arg |-> arg, target |-> layer_name, gp |-> gp_name, result |-> "FINISHED", level |-> "INFO", msg |-> "Drawing on: " \o layer_name]]

----------------------------------------------------------------------------
(* The state machine *)

NoLast == [op |-> "none", result |-> "", level |-> "", msg |-> "", returned |-> FALSE, puppet_name |-> "", existing |-> {}, puppets_before |-> 0]

NoCall == [fn |-> "none", result |-> <<>>]

Outcome(op, result, level, msg) == [NoLast EXCEPT !.op = op, !.result = result, !.level = level, !.msg = msg]

\* the add-on registered in an empty scene
Init ==
    /\ version \in Versions
    /\ objects = <<>>
    /\ active = ""
    /\ mode = "OBJECT"
    /\ props = InitProps
    /\ last = NoLast
    /\ exec = NoExec
    /\ call = NoCall

\* value[key] in Python: a tuple takes no string index
Subscript(value, key, objs) ==
    IF value.pytype = "tuple"
    THEN [raised |-> TRUE, value |-> "", msg |-> "tuple indices must be integers or slices, not str"]
    ELSE [raised |-> FALSE, value |-> ObjectNamed(objs, value.name)[key], msg |-> ""]

\* PUPPET_OT_create_puppet.execute.  With host_ok false the host refuses
\* bpy.ops.object.mode_set(mode='EDIT') in create_armature, which raises with the
\* armature object linked, active and selected.
create_puppet_execute(limit, base_name, host_ok) ==
    /\ Cardinality({i \in DOMAIN objects : objects[i].type = "ARMATURE"}) < limit
    /\ LET existing_names == ObjectNames(objects)
           r == create_puppet(objects, base_name)
           sub == Subscript(r.returned, "puppet_name", r.objects)
           before == Len(get_puppets_in_scene(objects))
       IN  IF ~host_ok
           THEN /\ objects' = deselect_all_objects(objects) \o <<LinkedArmature(r.puppet_name, existing_names)>>
                /\ active' = LinkedArmature(r.puppet_name, existing_names).name
                /\ last' = [Outcome("create_puppet", "CANCELLED", "ERROR", "Failed to create puppet: mode_set failed") EXCEPT
                                !.puppet_name = r.puppet_name, !.existing = existing_names, !.puppets_before = before]
           ELSE /\ objects' = r.objects
                /\ active' = r.active
                /\ last' = [(IF sub.raised
                             THEN Outcome("create_puppet", "CANCELLED", "ERROR", "Failed to create puppet: " \o sub.msg)
                             ELSE Outcome("create_puppet", "FINISHED", "INFO", "Created puppet '" \o sub.value \o "' with " \o ToString(get_total_drawable_parts) \o " drawable parts"))
                            EXCEPT !.returned = TRUE, !.puppet_name = r.puppet_name, !.existing = existing_names, !.puppets_before = before]
    /\ mode' = "OBJECT"
    /\ exec' = NoExec
    /\ call' = NoCall
    /\ UNCHANGED <<version, props>>

CreatePuppet(base_name, host_ok) == create_puppet_execute(MaxCreates, base_name, host_ok)

CreateAnotherPuppet(base_name, host_ok) == create_puppet_execute(MaxPuppets, base_name, host_ok)

\* puppet.view_part run from the panel: poll lets it run only when a GP object is found
ViewPart(arg) ==
    /\ \E gp_name \in get_gp_object_from_context(objects, active) :
        /\ gp_name # ""
        /\ LET r == view_part_execute(objects, active, mode, props, arg, gp_name)
           IN  /\ objects' = r.objects
               /\ active' = r.active
               /\ mode' = r.mode
               /\ exec' = r.exec
    /\ last' = NoLast
    /\ call' = NoCall
    /\ UNCHANGED <<version, props>>

\* puppet.draw_part run from the panel
DrawPart(arg) ==
    /\ \E gp_name \in get_gp_object_from_context(objects, active) :
        /\ gp_name # ""
        /\ LET r == draw_part_execute(objects, active, mode, props, arg, gp_name)
           IN  /\ objects' = r.objects
               /\ active' = r.active
               /\ mode' = r.mode
               /\ exec' = r.exec
    /\ last' = NoLast
    /\ call' = NoCall
    /\ UNCHANGED <<version, props>>

\* bpy.ops.puppet.view_part() called by another operator with the selector p:
\* a failed poll raises in the caller and nothing is executed
NestedViewPart(p) ==
    \E gp_name \in get_gp_object_from_context(objects, active) :
        IF gp_name = ""
        THEN /\ exec' = NoExec
             /\ UNCHANGED <<objects, active, mode>>
        ELSE LET r == view_part_execute(objects, active, mode, p, "", gp_name)
             IN  /\ objects' = r.objects
                 /\ active' = r.active
                 /\ mode' = r.mode
                 /\ exec' = r.exec

\* PUPPET_OT_set_view.execute
SetView(view) ==
    /\ props' = [props EXCEPT !.character_view = view]
    /\ NestedViewPart(props')
    /\ last' = NoLast
    /\ call' = NoCall
    /\ UNCHANGED version

\* PUPPET_OT_set_hand_pose.execute
SetHandPose(pose) ==
    /\ props' = [props EXCEPT !.hand_pose = pose]
    /\ last' = NoLast
    /\ exec' = NoExec
    /\ call' = NoCall
    /\ UNCHANGED <<version, objects, active, mode>>

RegionOf(part) ==
    IF part \in {"Head", "Face_Features", "Mouth"} THEN "FACE"
    ELSE IF StartsWith(part, "Hand_") THEN "HANDS"
    ELSE "BODY"

\* PUPPET_OT_quick_select_part.execute
QuickSelectPart(part) ==
    /\ props' = [props EXCEPT !.region = RegionOf(part), !.part = part]
    /\ last' = NoLast
    /\ exec' = NoExec
    /\ call' = NoCall
    /\ UNCHANGED <<version, objects, active, mode>>

\* PUPPET_OT_toggle_onion.execute
ToggleOnion ==
    /\ props' = [props EXCEPT !.onion_skin_enabled = ~props.onion_skin_enabled]
    /\ IF get_gp_object_from_context(objects, active) = {""}
       THEN /\ exec' = NoExec
            /\ UNCHANGED <<objects, active, mode>>
       ELSE NestedViewPart(props')
    /\ last' = NoLast
    /\ call' = NoCall
    /\ UNCHANGED version

\* PUPPET_OT_set_rotation.execute: the enum takes one of its current identifiers
\* only, and the assignment of any other raises
SetRotation(rotation, auto_view) ==
    /\ IF rotation \notin SeqToSet(get_rotation_items(props.part))
       THEN /\ exec' = NoExec
            /\ UNCHANGED <<objects, active, mode, props>>
       ELSE /\ props' = [props EXCEPT !.rotation_index = IndexOf(get_rotation_items(props.part), rotation)]
            /\ IF auto_view
               THEN NestedViewPart(props')
               ELSE /\ exec' = NoExec
                    /\ UNCHANGED <<objects, active, mode>>
    /\ last' = NoLast
    /\ call' = NoCall
    /\ UNCHANGED version

\* PUPPET_OT_select_puppet.execute, on a name the panel lists
SelectPuppet(name) ==
    /\ name \in ObjectNames(objects)
    /\ objects' = [i \in DOMAIN objects |-> [objects[i] EXCEPT !.select = (objects[i].name = name)]]
    /\ active' = name
    /\ last' = NoLast
    /\ exec' = NoExec
    /\ call' = NoCall
    /\ UNCHANGED <<version, mode, props>>

Next ==
    \/ \E base_name \in BaseNames, host_ok \in BOOLEAN : CreatePuppet(base_name, host_ok)
    \/ \E arg \in LayerArgs : ViewPart(arg)
    \/ \E arg \in LayerArgs : DrawPart(arg)
    \/ \E view \in ViewInputs : SetView(view)
    \/ \E pose \in PoseInputs : SetHandPose(pose)
    \/ \E part \in PartInputs : QuickSelectPart(part)
    \/ ToggleOnion
    \/ \E rotation \in Prefix(get_rotation_items(props.part), MaxRotationInputs) \cup {"Front"}, auto_view \in BOOLEAN : SetRotation(rotation, auto_view)
    \/ \E i \in DOMAIN get_puppets_in_scene(objects) : SelectPuppet(get_puppets_in_scene(objects)[i].name)

Spec == Init /\ [][Next]_vars

----------------------------------------------------------------------------
(* Puppets are created and selected, nothing is viewed or drawn: no other        *)
(* operator adds, removes or renames an object or changes a custom property.     *)

\* PUPPET_OT_view_part.poll, as the panel runs it for its buttons:
\* get_gp_object_from_context(context), "" for None
ViewPartPoll ==
    /\ \E gp_name \in get_gp_object_from_context(objects, active) : call' = [fn |-> "get_gp_object_from_context", result |-> <<gp_name>>]
    /\ last' = NoLast
    /\ exec' = NoExec
    /\ UNCHANGED <<version, objects, active, mode, props>>

NextCreate ==
    \/ \E base_name \in BaseNames, host_ok \in BOOLEAN : CreateAnotherPuppet(base_name, host_ok)
    \/ \E i \in DOMAIN get_puppets_in_scene(objects) : SelectPuppet(get_puppets_in_scene(objects)[i].name)
    \/ ViewPartPoll

SpecCreate == Init /\ [][NextCreate]_vars

----------------------------------------------------------------------------
(* The helper functions on every selection: one puppet, just created, and the   *)
(* selector on any part, view and hand pose.                                     *)

Selection(part, view, pose) == [InitProps EXCEPT !.region = RegionOf(part), !.part = part, !.character_view = view, !.hand_pose = pose]

InitSelected ==
    /\ version \in Versions
    /\ objects = create_puppet(<<>>, "Puppet").objects
    /\ active = create_puppet(<<>>, "Puppet").active
    /\ mode = "OBJECT"
    /\ props \in {Selection(part, view, pose) : part \in SeqToSet(DRAWABLE_PARTS), view \in SeqToSet(CHARACTER_VIEWS), pose \in SeqToSet(HAND_POSES)}
    /\ last = NoLast
    /\ exec = NoExec
    /\ call = NoCall

Called(fn, result) ==
    /\ call' = [fn |-> fn, result |-> result]
    /\ last' = NoLast
    /\ exec' = NoExec
    /\ UNCHANGED <<version, objects, active, mode, props>>

\* get_current_layer_name(context), as the panel and both execute methods call it
GetCurrentLayerName == Called("get_current_layer_name", <<get_current_layer_name(props)>>)

\* get_active_layers_for_view(props.character_view, props.hand_pose), as get_view_layer_names calls it
GetActiveLayersForView == Called("get_active_layers_for_view", get_active_layers_for_view(props.character_view, props.hand_pose))

\* get_layer_draw_order()
GetLayerDrawOrder == Called("get_layer_draw_order", get_layer_draw_order)

\* LAYER_TO_BONE.items()
GetLayerToBone == Called("LAYER_TO_BONE", LAYER_TO_BONE)

\* get_bone_names_flat()
GetBoneNamesFlat == Called("get_bone_names_flat", get_bone_names_flat)

NextSelected ==
    \/ GetCurrentLayerName
    \/ GetActiveLayersForView
    \/ GetLayerDrawOrder
    \/ GetLayerToBone
    \/ GetBoneNamesFlat
    \/ \E arg \in LayerArgs : ViewPart(arg)
    \/ \E arg \in LayerArgs : DrawPart(arg)

SpecSelected == InitSelected /\ [][NextSelected]_vars

----------------------------------------------------------------------------
(* Properties *)

\* the GP object the last view_part / draw_part execution worked on
ExecGp == ObjectNamed(objects, exec.gp)

\* the layer of that name in a GP object's layers
LayerNamed(layers, name) == layers[CHOOSE i \in DOMAIN layers : layers[i].name = name]

DrawFinished == exec.kind = "draw_part" /\ exec.result = "FINISHED"

ViewFinished == exec.kind = "view_part" /\ exec.result = "FINISHED"

C2_DrawnPartHasItsObject ==
    DrawFinished =>
        /\ get_gp_object_name(ObjectNamed(objects, ExecGp.puppet_rig).puppet_name, exec.target) \in ObjectNames(objects)
        /\ is_layer_drawn(objects, ExecGp.puppet_rig, exec.target)
        /\ count_drawn_parts(objects, ExecGp.puppet_rig)[1] >= 1

\* C3: create_puppet.execute reports INFO "Created puppet '<puppet_name>' with N
\* drawable parts" and returns FINISHED whenever create_puppet returned without
\* raising; it reports ERROR and returns CANCELLED only when no puppet was added.
C3_CreateReportsWhatHappened ==
    last.op = "create_puppet" =>
        /\ last.returned =>
            /\ last.result = "FINISHED"
            /\ last.level = "INFO"
            /\ last.msg = "Created puppet '" \o last.puppet_name \o "' with " \o ToString(get_total_drawable_parts) \o " drawable parts"
        /\ last.result = "CANCELLED" =>
            /\ last.level = "ERROR"
            /\ Len(get_puppets_in_scene(objects)) = last.puppets_before

\* C4: the puppet_name create_puppet chooses names no object that existed when the
\* call started, and the puppet armatures of the scene carry pairwise distinct
\* puppet_name values.
C4_PuppetNamesAreUnique ==
    /\ last.op = "create_puppet" => last.puppet_name \notin last.existing
    /\ LET puppets == get_puppets_in_scene(objects)
       IN  \A i, j \in DOMAIN puppets : i # j => puppets[i].puppet_name # puppets[j].puppet_name

\* the same base name a third time, with both earlier names taken: the loop counted to 2
C4_Witness ==
    /\ Len(get_puppets_in_scene(objects)) = 3
    /\ last.op = "create_puppet"
    /\ last.returned
    /\ last.puppet_name = "Puppet_002"
    /\ {"Puppet", "Puppet_001"} \subseteq last.existing

\* C5: after puppet.view_part run as the VIEW ALL button runs it (no layer_name)
\* finished, every layer of get_active_layers_for_view(character_view, hand_pose)
\* is visible.
C5_ViewAllShowsAssembledCharacter ==
    (ViewFinished /\ exec.arg = "") =>
        \A name \in get_view_layer_names(props) :
            /\ name \in LayerNames(ExecGp.layers)
            /\ ~LayerNamed(ExecGp.layers, name).hide

\* C6: after view_part or draw_part finished on the selected layer of a part with
\* several view variants: with onion skin enabled every other view layer of that part
\* is visible at onion_skin_opacity, and with onion skin disabled the target layer is
\* the only visible layer.
C6_OnionSkinShowsOtherViews ==
    ((ViewFinished \/ DrawFinished) /\ exec.arg = "" /\ props.part \in SeqToSet(VIEW_DEPENDENT_PARTS)) =>
        IF props.onion_skin_enabled
        THEN \A name \in SeqToSet(GP_LAYER_STRUCTURE[props.part]) \ {exec.target} :
                /\ name \in LayerNames(ExecGp.layers)
                /\ ~LayerNamed(ExecGp.layers, name).hide
                /\ LayerNamed(ExecGp.layers, name).opacity = props.onion_skin_opacity
        ELSE \A i \in DOMAIN ExecGp.layers : ~ExecGp.layers[i].hide => ExecGp.layers[i].name = exec.target

\* C7: for a selection with part in DRAWABLE_PARTS, character_view in CHARACTER_VIEWS
\* and hand_pose in HAND_POSES, get_current_layer_name returns one of
\* GP_LAYER_STRUCTURE[part], so one of get_all_layer_names() and of
\* get_active_layers_for_view(character_view, hand_pose): '<part>_<view>' for a
\* view-dependent part, '<part>_<pose>' for a hand, the part name otherwise; and on
\* the puppet just created view_part and draw_part run on the selection never
\* cancel with 'Layer not found'.
C7_CurrentLayerNameIsALayer ==
    /\ props.part \in SeqToSet(DRAWABLE_PARTS)
    /\ props.character_view \in SeqToSet(CHARACTER_VIEWS)
    /\ props.hand_pose \in SeqToSet(HAND_POSES)
    /\ call.fn = "get_current_layer_name" =>
        LET name == call.result[1]
        IN  /\ name \in SeqToSet(GP_LAYER_STRUCTURE[props.part])
            /\ name \in SeqToSet(get_all_layer_names)
            /\ name \in SeqToSet(get_active_layers_for_view(props.character_view, props.hand_pose))
            /\ name = (IF props.part \in SeqToSet(VIEW_DEPENDENT_PARTS) THEN props.part \o "_" \o props.character_view
                       ELSE IF props.part \in {"Hand_L", "Hand_R"} THEN props.part \o "_" \o props.hand_pose
                       ELSE props.part)
    /\ (exec.kind \in {"view_part", "draw_part"} /\ exec.arg = "") =>
        /\ exec.result = "FINISHED"
        /\ exec.target \in SeqToSet(GP_LAYER_STRUCTURE[props.part])

\* the name asked for a hand, with a view and a pose that are not the defaults
C7_Witness ==
    /\ call.fn = "get_current_layer_name"
    /\ props.part = "Hand_R"
    /\ props.character_view = "Profile_L"
    /\ props.hand_pose = "Point"
    /\ call.result = <<"Hand_R_Point">>

OrderIndex(layer_name) == IndexOf(LAYER_ORDER, _get_base_part_from_layer(layer_name))

\* C9: in the GP object create_grease_pencil builds, whenever the base part of one
\* layer comes before the base part of another in LAYER_ORDER, the first layer is
\* created after the second (stacked above it).
C9_LayersStackedFrontToBack ==
    \A k \in DOMAIN objects :
        LET order == [i \in DOMAIN objects[k].layers |-> OrderIndex(objects[k].layers[i].name)]
        IN  \A i, j \in DOMAIN order : order[i] < order[j] => i > j

\* C10: get_layer_draw_order() is a permutation of get_all_layer_names(), and a layer
\* whose base part comes after another's in LAYER_ORDER appears before it.
C10_DrawOrderIsBackToFront ==
    call.fn = "get_layer_draw_order" =>
        LET order == [i \in DOMAIN call.result |-> OrderIndex(call.result[i])]
        IN  /\ Len(call.result) = Len(get_all_layer_names)
            /\ SeqToSet(call.result) = SeqToSet(get_all_layer_names)
            /\ \A i, j \in DOMAIN call.result : i # j => call.result[i] # call.result[j]
            /\ \A i, j \in DOMAIN order : order[i] > order[j] => i < j

C10_Witness ==
    /\ call.fn = "get_layer_draw_order"
    /\ Len(call.result) = 40
    /\ call.result[1] = "Leg_R_Front"
    /\ call.result[40] = "Face_Features"
    /\ OrderIndex(call.result[1]) = 12
    /\ OrderIndex(call.result[40]) = 1

\* C11: the key set of LAYER_TO_BONE is the set of names of get_all_layer_names(), no
\* key twice, and every value is a bone name of get_bone_names_flat().
C11_EveryLayerHasABone ==
    call.fn = "LAYER_TO_BONE" =>
        /\ {call.result[i].key : i \in DOMAIN call.result} = SeqToSet(get_all_layer_names)
        /\ \A i, j \in DOMAIN call.result : i # j => call.result[i].key # call.result[j].key
        /\ \A i \in DOMAIN call.result : call.result[i].value \in SeqToSet(get_bone_names_flat)

\* the mapping looked up with all 40 layers in it, the mouth on the jaw
C11_Witness ==
    /\ call.fn = "LAYER_TO_BONE"
    /\ Len(call.result) = 40
    /\ \E i \in DOMAIN call.result : call.result[i] = [key |-> "Mouth", value |-> "Jaw"]
    /\ \E i \in DOMAIN call.result : call.result[i] = [key |-> "Leg_R_Profile_R", value |-> "Hips"]

\* the entries of a hierarchy, each with the name of the entry enclosing it
RECURSIVE EntriesOf(_, _)
EntriesOf(hierarchy, enclosing) ==
    IF Len(hierarchy) = 0 THEN {}
    ELSE {[name |-> Head(hierarchy).name, enclosing |-> enclosing]}
         \cup EntriesOf(Head(hierarchy).children, Head(hierarchy).name)
         \cup EntriesOf(Tail(hierarchy), enclosing)

RECURSIVE CountEntries(_)
CountEntries(hierarchy) ==
    IF Len(hierarchy) = 0 THEN 0
    ELSE 1 + CountEntries(Head(hierarchy).children) + CountEntries(Tail(hierarchy))

\* the armatures create_armature returned: create_puppet marked them as puppets
BuiltArmatures == {k \in DOMAIN objects : objects[k].type = "ARMATURE" /\ objects[k].is_puppet}

\* C12: the skeleton create_armature built has exactly one bone per entry of
\* BONE_HIERARCHY, under pairwise distinct names; every bone is created after its
\* parent, its parent is the bone of the enclosing entry, Root is the only bone
\* without a parent; and get_bone_names_flat() lists the bones in the order created.
C12_SkeletonFollowsHierarchy ==
    \A k \in BuiltArmatures :
        LET bones == objects[k].bones
        IN  /\ Len(bones) = CountEntries(BONE_HIERARCHY)
            /\ {[name |-> bones[i].name, enclosing |-> bones[i].parent] : i \in DOMAIN bones} = EntriesOf(BONE_HIERARCHY, "")
            /\ \A i, j \in DOMAIN bones : i # j => bones[i].name # bones[j].name
            /\ \A i \in DOMAIN bones :
                bones[i].parent # "" => \E j \in DOMAIN bones : j < i /\ bones[j].name = bones[i].parent
            /\ \A i \in DOMAIN bones : bones[i].parent = "" <=> bones[i].name = "Root"
            /\ [i \in DOMAIN bones |-> bones[i].name] = get_bone_names_flat

\* a puppet created, its armature with all 55 bones, the last finger joint on its finger
C12_Witness ==
    /\ last.op = "create_puppet"
    /\ last.returned
    /\ \E k \in BuiltArmatures :
        /\ Len(objects[k].bones) = 55
        /\ \E i \in DOMAIN objects[k].bones :
            /\ objects[k].bones[i].name = "Pinky_R_3"
            /\ objects[k].bones[i].parent = "Pinky_R_2"
            /\ objects[k].bones[i].use_connect

\* the Grease Pencil objects of puppets, whatever type the host gave them:
\* create_puppet stored the name of the rig on them
PuppetGpNames == {objects[i].name : i \in {j \in DOMAIN objects : objects[j].puppet_rig # ""}}

\* C13: get_gp_object_from_context returns, with a puppet armature active, the GP
\* object whose puppet_rig names that armature; with a puppet GP object active, that
\* object; and None only when the scene holds no puppet GP object.
C13_FindsGpOfActivePuppet ==
    call.fn = "get_gp_object_from_context" =>
        LET found == call.result[1]
        IN  /\ (active # "" /\ ObjectNamed(objects, active).type = "ARMATURE" /\ ObjectNamed(objects, active).is_puppet) =>
                (found \in PuppetGpNames /\ ObjectNamed(objects, found).puppet_rig = active)
            /\ active \in PuppetGpNames => found = active
            /\ found = "" => PuppetGpNames = {}

====
